---- MODULE Spec2Model ----
(***************************************************************************)
(* FundVerse frontend: the session manager of lib/ic.ts, the App           *)
(* component's login / logout / actor lifecycle (App.tsx) and the          *)
(* contribution workflow of ContributionDialog.tsx, as one state machine.  *)
(*                                                                         *)
(* Every `await` on real I/O (identity provider, remote canister call,     *)
(* root-key fetch, the 2 s success timer) is a point where the handler is  *)
(* suspended and other handlers may run; each action below is one handler  *)
(* segment between two such points.  React component state lives only as   *)
(* long as the component is mounted: the dialog is rendered by App only    *)
(* while contributionDialog.open && fundFlowActor && backendActor, and an  *)
(* unmount discards isLoading / error / success / the form.                *)
(*                                                                         *)
(* The exported functions of lib/ic.ts are also modelled as called directly  *)
(* (SpecSession, SpecSessionConcurrent), each split at its awaits, so that   *)
(* their contracts can be checked apart from the way App uses them.          *)
(* The pure functions (the error classifier of lib/ic.ts, the derived      *)
(* campaign values of lib/utils.ts and CampaignCard, the conversion of an  *)
(* amount to e8s and back) are applied to inputs drawn from bounded sets   *)
(* (SpecClassifier, SpecCard, SpecConversion).  SpecLive is Spec with the  *)
(* assumption that every remote call is answered.                          *)
(*                                                                         *)
(* Not modelled: CreateProjectDialog, the manual refresh button, the view  *)
(* switch, App's error banner and userPrincipal.  Decimal inputs are exact *)
(* decimals.  For the small amounts used here Math.floor(parseFloat(s) *   *)
(* 1e8) in IEEE doubles gives the same integer as the exact computation;   *)
(* for amounts of about 1e8 ICP, where a double cannot hold eight          *)
(* fractional digits, the double arithmetic itself is computed.            *)
(***************************************************************************)
EXTENDS Integers, Sequences, FiniteSets, TLC

\* ------------------------------------------------------------------ bounds
MaxRuns == 1    \* onSubmit invocations whose closure is alive at one time
MaxCalls == 1   \* direct calls of ic.ts functions in progress at one time
MaxWords == 4   \* length of a raw failure's message, in words
MaxUnits == 2   \* a campaign's goal and amount raised, in e8s
MaxDays == 1    \* the clock and the end dates range over this many days
MaxFrac == 50   \* fractions (in e8s) typed after a large whole amount

\* --------------------------------------------------------- program constants
E8S_PER_ICP == 100000000         \* 100_000_000
MAX_ICP == 10000                 \* amount <= 10000
FRAC_SCALE == 10 * E8S_PER_ICP   \* resolution of the modelled decimal inputs (1e-9 ICP)
SECONDS_PER_DAY == 86400         \* 24 * 60 * 60
MS_PER_SECOND == 1000            \* Date.now() / 1000

\* A client handle (actor) is null, or bound to the identity of a session:
\* "live" while that session is the valid one, "stale" once it was invalidated.
NullActor == "null"
Handles == {"live", "stale"}

NoMessage == "null"

\* Contribution ids the funds service may return.
ContributionIds == {41, 42}

VARIABLES
    \* lib/ic.ts and the browser environment
    isLocal,         \* environment flag, fixed for the process
    authClient,      \* TRUE iff the module-level authClient is non-null
    sessionValid,    \* a delegation is stored and valid at the identity layer
    \* App.tsx component state
    loading,
    authenticated,
    backendActor,
    fundFlowActor,
    isConnecting,
    campaigns,       \* TRUE iff the campaign list is non-empty
    dialogOpen,      \* contributionDialog.open
    \* suspended App handlers
    initPc,          \* initializeApp: "status" | "actors" | "done"
    loginPc,         \* handleLogin:   "idle" | "provider" | "actors"
    actorsIdentity,  \* the identity captured by the pending initializeActors
    loads,           \* handles with a get_campaign_cards call in flight
    \* ContributionDialog.tsx component state (of the mounted instance)
    dlg,
    \* contribution runs (invocations of onSubmit) whose closure is still
    \* reachable, in start order: in flight, waiting for the success timer,
    \* or shown by the dialog instance that started them
    runs,
    \* direct callers of the exported functions of lib/ic.ts
    calls,           \* per caller: the function called, where it is suspended, its result
    \* model bookkeeping
    runLimit,        \* how many runs may be alive at one time in this behaviour
    callLimit,       \* how many direct calls may be in progress at one time
    clientReplaced,  \* getAuthClient stored a new client over one that was stored
    \* pure functions applied to an input: the input, how far the
    \* application went, and what came out
    classification,  \* lib/ic.ts handleICError on a raw failure
    card,            \* CampaignCard's derived values for one campaign at one instant
    conversion,      \* the amount field's text to e8s and back to text
    \* history
    usedAfterLogout  \* a remote call was dispatched on a handle of an invalidated session

icVars == <<isLocal, authClient, sessionValid, runLimit>>
appVars == <<loading, authenticated, backendActor, fundFlowActor, isConnecting,
             campaigns, dialogOpen>>
procVars == <<initPc, loginPc, actorsIdentity, loads>>
dlgVars == <<dlg, runs>>
callVars == <<calls, callLimit, clientReplaced>>
fnVars == <<classification, card, conversion>>
vars == <<icVars, appVars, procVars, dlgVars, callVars, fnVars, usedAfterLogout>>

\* ------------------------------------------------------- decimal amounts
\* The text of the amount field, as the decimal number it denotes
\* (sign, whole ICP, fraction in units of 1e-9 ICP), or the empty string.
Amount(e, n, w, f) == [empty |-> e, neg |-> n, whole |-> w, frac |-> f]
EmptyAmount == Amount(TRUE, FALSE, 0, 0)           \* ""
AmtZero == Amount(FALSE, FALSE, 0, 0)              \* "0"
AmtNegative == Amount(FALSE, TRUE, 1, 0)           \* "-1"
AmtSubE8 == Amount(FALSE, FALSE, 0, 1)             \* "0.000000001"
AmtOne == Amount(FALSE, FALSE, 1, 0)               \* "1"
AmtOverMax == Amount(FALSE, FALSE, MAX_ICP, 10)    \* "10000.00000001"
AmountInputs == {AmtZero, AmtNegative, AmtSubE8, AmtOne, AmtOverMax}

\* parseFloat(data.amount) > 0
AmountPositive(a) == ~a.neg /\ (a.whole > 0 \/ a.frac > 0)
\* parseFloat(data.amount) <= 10000
AmountWithinMax(a) ==
    a.neg \/ a.whole < MAX_ICP \/ (a.whole = MAX_ICP /\ a.frac = 0)

\* A refine that only checks the upper limit.
SchemaValidUpperLimitOnly(a) == ~a.empty /\ AmountWithinMax(a)

\* contributionSchema: min(1) on the string, then the refine
SchemaValid(a) == ~a.empty /\ AmountPositive(a) /\ AmountWithinMax(a)

\* IEEE doubles between 2^26 and 2^27 are the multiples of 2^-26, and
\* doubles between 2^53 and 2^54 are the even integers.  An amount w + f
\* with 2^53 <= w * 10^8 and w < 2^27 is handled in that grid: the double is
\* w plus a number of steps of 2^-26 (ulps).
MIN_WHOLE_2_53 == 90071993       \* the least w with w * 10^8 >= 2^53
InBinade(whole) == whole >= MIN_WHOLE_2_53 /\ whole < 2^27

\* n / d rounded to the nearest integer (no ties occur for the values used)
RoundDiv(n, d) == (2 * n + d) \div (2 * d)

\* parseFloat: the fraction, in ulps; 2^26 / 10^9 = 2^17 / 5^9
ParseFloatUlps(frac) == RoundDiv(frac * 2^17, 5^9)

\* parseFloat(amount) * 100_000_000 for such an amount, below w * 10^8:
\* ulps * 10^8 / 2^26 = ulps * 5^8 / 2^18, rounded to an even integer
TimesE8sEven(ulps) == 2 * RoundDiv(ulps * 5^8, 2^19)

\* Math.floor(parseFloat(amount) * 100_000_000), as [neg, whole ICP, e8s below one ICP]
AmountE8s(a) ==
    LET perE8 == FRAC_SCALE \div E8S_PER_ICP
        down == a.frac \div perE8
        up == (a.frac + perE8 - 1) \div perE8
    IN  IF a.empty THEN [neg |-> FALSE, whole |-> 0, e8 |-> 0]
        ELSE IF ~a.neg /\ InBinade(a.whole)
        THEN [neg |-> FALSE, whole |-> a.whole,
              e8 |-> TimesE8sEven(ParseFloatUlps(a.frac))]
        ELSE IF ~a.neg THEN [neg |-> FALSE, whole |-> a.whole, e8 |-> down]
        ELSE IF up = E8S_PER_ICP THEN [neg |-> TRUE, whole |-> a.whole + 1, e8 |-> 0]
        ELSE [neg |-> (a.whole > 0 \/ up > 0), whole |-> a.whole, e8 |-> up]

E8sPositive(e) == ~e.neg /\ (e.whole > 0 \/ e.e8 > 0)

\* formatE8s: (Number(e8s) / 100_000_000).toFixed(8), as the decimal the
\* text denotes.  In the grid above the quotient is w plus
\* e8 * 2^26 / 10^8 = e8 * 2^18 / 5^8 ulps, rounded, and toFixed(8) prints
\* ulps * 10^8 / 2^26 rounded to a whole number of e8s.
FormatE8s(e) ==
    LET perE8 == FRAC_SCALE \div E8S_PER_ICP
        ulps == RoundDiv(e.e8 * 2^18, 5^8)
    IN  IF ~e.neg /\ InBinade(e.whole)
        THEN Amount(FALSE, FALSE, e.whole, perE8 * RoundDiv(ulps * 5^8, 2^18))
        ELSE Amount(FALSE, e.neg, e.whole, perE8 * e.e8)

\* |x - y| in units of 1e-9 ICP, capped at one ICP
Distance(x, y) ==
    LET Abs(n) == IF n < 0 THEN -n ELSE n
        dw == x.whole - y.whole
    IN  IF x.neg # y.neg
        THEN IF x.whole + y.whole = 0 THEN x.frac + y.frac ELSE FRAC_SCALE
        ELSE IF dw \in {-1, 0, 1} THEN Abs(dw * FRAC_SCALE + x.frac - y.frac)
        ELSE FRAC_SCALE

\* ------------------------------------------------------- remote outcomes
\* What a remote call can come back with: a value, an Err payload, or a throw.
Ok(v) == [tag |-> "Ok", val |-> v, msg |-> NoMessage]
Err(m) == [tag |-> "Err", val |-> 0, msg |-> m]
Throw(m) == [tag |-> "Throw", val |-> 0, msg |-> m]

AlreadyRegistered == "user already registered"

RegisterOutcomes ==
    {Ok(0), Throw(AlreadyRegistered), Throw("network error")}
ContributeOutcomes ==
    {Ok(i) : i \in ContributionIds}
        \cup {Err("campaign already ended"), Throw("network error")}
ConfirmOutcomes ==
    {Ok(0), Err("contribution not found"), Throw("network error")}

\* utils.ts handleICError, applied to a thrown Error whose message is m
HandleICErrorMessage(m) ==
    IF m # "" THEN m ELSE "An unknown error occurred"

\* utils.ts handleICError, the one ContributionDialog imports: the message is
\* passed on and code is error.code, which an Error thrown by onSubmit or by
\* the agent as modelled here does not have.
HandleICError(m) == [message |-> HandleICErrorMessage(m), code |-> "undefined"]

\* The codes the classifier of lib/ic.ts (its own handleICError) assigns.
ErrorKinds ==
    {"INSUFFICIENT_FUNDS", "NOT_AUTHORIZED", "CAMPAIGN_NOT_FOUND",
     "CAMPAIGN_ENDED", "UNKNOWN"}

\* ------------------------------------------------------- dialog and runs
FreshDlg ==
    [isLoading |-> FALSE, error |-> NoMessage, success |-> FALSE,
     amount |-> EmptyAmount, isSubmitted |-> FALSE, formError |-> FALSE]

\* The dialog element is rendered (and so mounted)
DialogRendered(open, ff, be, auth, ld) ==
    open /\ ff # NullActor /\ be # NullActor /\ auth /\ ~ld

Mounted == DialogRendered(dialogOpen, fundFlowActor, backendActor, authenticated, loading)

InFlight(r) == r.pc \in {"registering", "contributing", "confirming"}
Finished(r) == r.pc \in {"succeeded", "failed"}

\* A finished run stays reachable only through its pending success timer or
\* through the dialog instance that shows its outcome.
Reachable(r) == ~(Finished(r) /\ ~r.attached /\ ~r.timer)
Collect(rs) == SelectSeq(rs, Reachable)

\* The run's setState calls reach the dialog only while the instance that
\* started it is still mounted.
Detach(rs) ==
    Collect([i \in DOMAIN rs |->
                [rs[i] EXCEPT !.attached = FALSE, !.closeRequested = FALSE]])

\* Effect of a change of App state on the dialog: mount fresh, keep, or
\* unmount.  Used by every App-level action, after it has set the App
\* variables; rs is the value of runs the action leaves.
DialogFollowsApp(rs) ==
    LET now == DialogRendered(dialogOpen', fundFlowActor', backendActor',
                              authenticated', loading')
    IN  /\ dlg' = IF now /\ Mounted THEN dlg ELSE FreshDlg
        /\ runs' = IF Mounted /\ ~now THEN Detach(rs) ELSE rs

\* Invalidating the session turns every handle built on it stale.
Invalidate(h) == IF h = "live" THEN "stale" ELSE h
InvalidateRuns(rs) ==
    [i \in DOMAIN rs |-> [rs[i] EXCEPT !.ff = Invalidate(@), !.be = Invalidate(@)]]

\* createAgent: the handle is bound to client.getIdentity() at that moment.
CurrentIdentity == "live"

\* getAuthClient
GetAuthClient == authClient' = TRUE

\* The effect that reloads campaigns when backendActor or authenticated
\* changed and both are set (evaluated on the state just set).
LoadStarts ==
    /\ (backendActor' # backendActor \/ authenticated' # authenticated)
    /\ backendActor' # NullActor
    /\ authenticated'

\* loadCampaigns up to the dispatch of get_campaign_cards; ls is the value of
\* loads the action leaves.
LoadEffect(ls) ==
    IF LoadStarts
    THEN /\ loads' = ls \cup {backendActor'}
         /\ usedAfterLogout' = (usedAfterLogout \/ backendActor' = "stale")
    ELSE /\ loads' = ls
         /\ usedAfterLogout' = usedAfterLogout

\* In a production build createAgent awaits nothing external, so the
\* continuation of initializeActors runs before any other event.
Settling == ~isLocal /\ (loginPc = "actors" \/ initPc = "actors")

\* Callers of the exported functions of lib/ic.ts, and the functions that
\* go through getAuthClient (createAgent stands for the two actor factories).
Callers == 1 .. (MaxCalls + 1)
Ops == {"login", "logout", "isAuthenticated", "getPrincipal", "createAgent"}

\* What the caller saw stored when it made the call.
StoredState == [client |-> authClient, session |-> sessionValid]

IdleCall ==
    [op |-> "none", pc |-> "idle", result |-> "none",
     before |-> [client |-> FALSE, session |-> FALSE]]

Start ==
    /\ isLocal \in BOOLEAN
    /\ authClient = FALSE
    /\ sessionValid \in BOOLEAN
    /\ loading = TRUE
    /\ authenticated = FALSE
    /\ backendActor = NullActor
    /\ fundFlowActor = NullActor
    /\ isConnecting = FALSE
    /\ campaigns = FALSE
    /\ dialogOpen = FALSE
    /\ initPc = "status"
    /\ loginPc = "idle"
    /\ actorsIdentity = NullActor
    /\ loads = {}
    /\ dlg = FreshDlg
    /\ runs = <<>>
    /\ calls = [c \in Callers |-> IdleCall]
    /\ clientReplaced = FALSE
    /\ usedAfterLogout = FALSE

\* No pure function is being applied.
NoInput == [pc |-> "none"]
FnIdle == classification = NoInput /\ card = NoInput /\ conversion = NoInput

\* The application as the only user of lib/ic.ts.
Init == Start /\ runLimit = MaxRuns /\ callLimit = 0 /\ FnIdle

\* ------------------------------------------------------------ App.tsx
\* initializeApp up to its first suspension inside initializeActors:
\* getConnectionStatus (which swallows every failure into connected = false),
\* setAuthenticated, and the start of initializeActors.
InitStatus ==
    /\ UNCHANGED <<callVars, fnVars>>
    /\ initPc = "status"
    /\ \E fails \in BOOLEAN :
         LET connected == ~fails /\ sessionValid
         IN  /\ authClient' \in (IF fails THEN BOOLEAN ELSE {TRUE})
             /\ authenticated' = connected
             /\ IF connected
                THEN /\ actorsIdentity' = CurrentIdentity
                     /\ initPc' = "actors"
                     /\ loading' = TRUE
                ELSE /\ actorsIdentity' = actorsIdentity
                     /\ initPc' = "done"
                     /\ loading' = FALSE
    /\ UNCHANGED <<isLocal, sessionValid, runLimit, backendActor, fundFlowActor,
                   isConnecting, campaigns, dialogOpen, loginPc>>
    /\ LoadEffect(loads)
    /\ DialogFollowsApp(runs)

\* initializeApp: initializeActors resolves or rejects, then finally.
InitActors ==
    /\ UNCHANGED <<callVars, fnVars>>
    /\ initPc = "actors"
    /\ \E ok \in BOOLEAN :
         IF ok
         THEN /\ backendActor' = actorsIdentity
              /\ fundFlowActor' = actorsIdentity
         ELSE UNCHANGED <<backendActor, fundFlowActor>>
    /\ loading' = FALSE
    /\ initPc' = "done"
    /\ UNCHANGED <<icVars, authenticated, isConnecting, campaigns, dialogOpen,
                   loginPc, actorsIdentity>>
    /\ LoadEffect(loads)
    /\ DialogFollowsApp(runs)

\* The authentication screen is shown.
LoginScreen == initPc = "done" /\ ~loading /\ ~authenticated

\* The main screen is shown and the modal dialog does not cover it.
MainScreen == initPc = "done" /\ ~loading /\ authenticated /\ ~Mounted

\* handleLogin up to the identity provider's redirect.
HandleLogin ==
    /\ UNCHANGED <<callVars, fnVars>>
    /\ LoginScreen
    /\ ~isConnecting
    /\ ~Settling
    /\ isConnecting' = TRUE
    /\ GetAuthClient
    /\ loginPc' = "provider"
    /\ UNCHANGED <<isLocal, sessionValid, runLimit, loading, authenticated, backendActor,
                   fundFlowActor, campaigns, dialogOpen, initPc, actorsIdentity,
                   loads, dlgVars, usedAfterLogout>>

\* The provider calls onSuccess or onError; on success a new session replaces
\* whatever was stored and handleLogin goes on to getPrincipal,
\* setAuthenticated(true) and the start of initializeActors.
LoginReturn ==
    /\ UNCHANGED <<callVars, fnVars>>
    /\ loginPc = "provider"
    /\ ~Settling
    /\ UNCHANGED <<isLocal, authClient, runLimit, loading, backendActor,
                   fundFlowActor, campaigns, dialogOpen, initPc>>
    /\ \E ok \in BOOLEAN :
         IF ok
         THEN /\ sessionValid' = TRUE
              /\ authenticated' = TRUE
              /\ actorsIdentity' = CurrentIdentity
              /\ loginPc' = "actors"
              /\ isConnecting' = isConnecting
              /\ LoadEffect({Invalidate(h) : h \in loads})
              /\ DialogFollowsApp(InvalidateRuns(runs))
         ELSE /\ UNCHANGED <<sessionValid, authenticated, actorsIdentity>>
              /\ loginPc' = "idle"
              /\ isConnecting' = FALSE
              /\ LoadEffect(loads)
              /\ DialogFollowsApp(runs)

\* handleLogin: initializeActors resolves or rejects, then finally.
LoginActors ==
    /\ UNCHANGED <<callVars, fnVars>>
    /\ loginPc = "actors"
    /\ \E ok \in BOOLEAN :
         IF ok
         THEN /\ backendActor' = actorsIdentity
              /\ fundFlowActor' = actorsIdentity
         ELSE UNCHANGED <<backendActor, fundFlowActor>>
    /\ isConnecting' = FALSE
    /\ loginPc' = "idle"
    /\ UNCHANGED <<icVars, loading, authenticated, campaigns, dialogOpen,
                   initPc, actorsIdentity>>
    /\ LoadEffect(loads)
    /\ DialogFollowsApp(runs)

\* handleLogout, with ic.ts logout: on success the module-level client is
\* dropped and the session is gone; a failing client.logout() leaves both.
HandleLogout ==
    /\ UNCHANGED <<callVars, fnVars>>
    /\ MainScreen
    /\ ~Settling
    /\ UNCHANGED <<isLocal, runLimit, loading, isConnecting, dialogOpen, initPc,
                   loginPc>>
    /\ \E ok \in BOOLEAN :
         IF ok
         THEN /\ authClient' = FALSE
              /\ sessionValid' = FALSE
              /\ authenticated' = FALSE
              /\ backendActor' = NullActor
              /\ fundFlowActor' = NullActor
              /\ campaigns' = FALSE
              /\ actorsIdentity' = Invalidate(actorsIdentity)
              /\ LoadEffect({Invalidate(h) : h \in loads})
              /\ DialogFollowsApp(InvalidateRuns(runs))
         ELSE /\ GetAuthClient
              /\ UNCHANGED <<sessionValid, authenticated, backendActor,
                             fundFlowActor, campaigns, actorsIdentity>>
              /\ LoadEffect(loads)
              /\ DialogFollowsApp(runs)

\* loadCampaigns: get_campaign_cards resolves (with some list) or rejects.
LoadReturn ==
    /\ UNCHANGED <<callVars, fnVars>>
    /\ ~Settling
    /\ \E h \in loads :
         /\ loads' = loads \ {h}
         /\ \E ok \in BOOLEAN :
              IF ok THEN campaigns' \in BOOLEAN ELSE campaigns' = campaigns
    /\ UNCHANGED <<icVars, loading, authenticated, backendActor, fundFlowActor,
                   isConnecting, dialogOpen, initPc, loginPc, actorsIdentity,
                   dlgVars, usedAfterLogout>>

\* handleContribute, from an active campaign's card.
HandleContribute ==
    /\ UNCHANGED <<callVars, fnVars>>
    /\ MainScreen
    /\ ~Settling
    /\ campaigns
    /\ dialogOpen' = TRUE
    /\ UNCHANGED <<icVars, loading, authenticated, backendActor, fundFlowActor,
                   isConnecting, campaigns, procVars, usedAfterLogout>>
    /\ DialogFollowsApp(runs)

\* ------------------------------------------------ ContributionDialog.tsx
\* A remote call dispatched on handle h counts against the session it was built on.
Dispatch(h) == usedAfterLogout' = (usedAfterLogout \/ h = "stale")

NewRun ==
    [pc |-> "registering", ff |-> fundFlowActor, be |-> backendActor,
     amount |-> dlg.amount, e8s |-> AmountE8s(dlg.amount),
     attached |-> TRUE, timer |-> FALSE, closeRequested |-> FALSE,
     registerRes |-> "none", registerMsg |-> NoMessage,
     contributeRes |-> "none", confirmRes |-> "none",
     cid |-> 0, confirmArg |-> 0,
     sent |-> [registering |-> 1, contributing |-> 0, confirming |-> 0]]

\* disabled={isLoading || !amount}
SubmitDisabled(d) == d.isLoading \/ d.amount.empty

\* Positions in runs.
RunSlots == 1 .. (MaxRuns + 1)

\* A catch around register_user that lets every failure of the call through.
RegisterAbortsOnThrow(res) == res.tag = "Throw"

\* The catch around register_user: which outcomes of the registration call
\* abort the run (it rethrows nothing).
RegisterAborts(res) == FALSE

\* Only a throwing call counts; the 'Err' in result test is missing.
ContributeFailedThrowOnly(res) == res.tag = "Throw"

\* 'Err' in result, or the await threw
ContributeFailed(res) == res.tag \in {"Err", "Throw"}

\* Only a throwing call counts; the 'Err' in confirmResult test is missing.
ConfirmFailedThrowOnly(res) == res.tag = "Throw"

\* 'Err' in confirmResult, or the await threw
ConfirmFailed(res) == res.tag \in {"Err", "Throw"}

\* confirm_payment called with an id other than the one contribute_icp returned.
ConfirmArgumentOffByOne(res) == res.val + 1

\* The id handed to confirm_payment
ConfirmArgument(res) == res.val

\* What a run hands to its caller: onSubmit resolves to undefined and calls
\* setSuccess(true) and, later, onContributionSuccess() without arguments.
RunResult(r) == [success |-> r.pc = "succeeded"]

\* The amount field is edited (the input is disabled while loading and is
\* not rendered on the success panel).  Once the form was submitted, the
\* form library validates again on every change.
SetAmount ==
    /\ UNCHANGED <<callVars, fnVars>>
    /\ Mounted
    /\ ~Settling
    /\ ~dlg.isLoading
    /\ ~dlg.success
    /\ \E a \in AmountInputs :
         dlg' = [dlg EXCEPT !.amount = a,
                            !.formError = IF dlg.isSubmitted
                                          THEN ~SchemaValid(a) ELSE @]
    /\ UNCHANGED <<icVars, appVars, procVars, runs, usedAfterLogout>>

\* A finished run the dialog still shows.
Shown(r) == Finished(r) /\ r.attached /\ ~r.timer
NotShown(r) == ~Shown(r)

\* An onSubmit that leaves the previous run's error in place.
OnSubmitStartKeepsError(d) == [d EXCEPT !.isLoading = TRUE, !.success = FALSE]

\* onSubmit's first statements: setIsLoading(true), setError(null),
\* setSuccess(false)
OnSubmitStart(d) ==
    [d EXCEPT !.isLoading = TRUE, !.error = NoMessage, !.success = FALSE]

\* handleSubmit(onSubmit): the resolver validates; onSubmit runs only on a
\* valid form, up to its first await (register_user dispatched).  The new
\* run's setError(null) / setSuccess(false) replace what the dialog showed.
Submit ==
    /\ UNCHANGED <<callVars, fnVars>>
    /\ Mounted
    /\ ~Settling
    /\ ~dlg.success
    /\ ~SubmitDisabled(dlg)
    /\ IF SchemaValid(dlg.amount)
       THEN /\ Len(SelectSeq(runs, NotShown)) < runLimit
            /\ dlg' = [OnSubmitStart(dlg) EXCEPT !.isSubmitted = TRUE,
                                                 !.formError = FALSE]
            /\ runs' = Append(SelectSeq(runs, NotShown), NewRun)
            /\ Dispatch(fundFlowActor)
       ELSE /\ dlg' = [dlg EXCEPT !.isSubmitted = TRUE, !.formError = TRUE]
            /\ UNCHANGED <<runs, usedAfterLogout>>
    /\ UNCHANGED <<icVars, appVars, procVars>>

\* onSubmit without its finally: the error is set, isLoading stays.
RunFailsKeepsLoading(i, q, res) ==
    /\ runs' = Collect([runs EXCEPT ![i] =
                            [q EXCEPT !.pc = "failed", !.closeRequested = FALSE]])
    /\ dlg' = IF runs[i].attached
              THEN [dlg EXCEPT !.error = HandleICErrorMessage(res.msg)]
              ELSE dlg
    /\ UNCHANGED usedAfterLogout

\* A catch that sends the failed call again instead of giving up.
RunRetries(i, q, res) ==
    /\ runs' = [runs EXCEPT ![i] = [q EXCEPT !.sent[runs[i].pc] = @ + 1]]
    /\ dlg' = dlg
    /\ Dispatch(runs[i].ff)

\* onSubmit's catch and finally: setError(handleICError(error).message),
\* setIsLoading(false); state updates of an unmounted instance are dropped.
RunFails(i, q, res) ==
    /\ runs' = Collect([runs EXCEPT ![i] =
                            [q EXCEPT !.pc = "failed", !.closeRequested = FALSE]])
    /\ dlg' = IF runs[i].attached
              THEN [dlg EXCEPT !.error = HandleICErrorMessage(res.msg),
                               !.isLoading = FALSE]
              ELSE dlg
    /\ UNCHANGED usedAfterLogout

\* register_user returns or throws; the run goes on to contribute_icp.
RegisterReturnOf(i) ==
    /\ UNCHANGED <<callVars, fnVars>>
    /\ ~Settling
    /\ i \in DOMAIN runs
    /\ \E res \in RegisterOutcomes :
         /\ runs[i].pc = "registering"
         /\ LET q == [runs[i] EXCEPT !.registerRes = res.tag, !.registerMsg = res.msg]
            IN  IF RegisterAborts(res)
                THEN RunFails(i, q, res)
                ELSE /\ runs' = [runs EXCEPT ![i] =
                                    [q EXCEPT !.pc = "contributing",
                                              !.sent.contributing = @ + 1]]
                     /\ Dispatch(runs[i].ff)
                     /\ dlg' = dlg
    /\ UNCHANGED <<icVars, appVars, procVars>>

\* register_user comes back to one of the runs.
RegisterReturn == \E i \in RunSlots : RegisterReturnOf(i)

\* contribute_icp returns or throws; on Ok the run goes on to confirm_payment.
ContributeReturnOf(i) ==
    /\ UNCHANGED <<callVars, fnVars>>
    /\ ~Settling
    /\ i \in DOMAIN runs
    /\ \E res \in ContributeOutcomes :
         /\ runs[i].pc = "contributing"
         /\ LET q == [runs[i] EXCEPT !.contributeRes = res.tag]
            IN  IF ContributeFailed(res)
                THEN RunFails(i, q, res)
                ELSE /\ runs' = [runs EXCEPT ![i] =
                                    [q EXCEPT !.pc = "confirming",
                                              !.cid = res.val,
                                              !.confirmArg = ConfirmArgument(res),
                                              !.sent.confirming = @ + 1]]
                     /\ Dispatch(runs[i].ff)
                     /\ dlg' = dlg
    /\ UNCHANGED <<icVars, appVars, procVars>>

\* contribute_icp comes back to one of the runs.
ContributeReturn == \E i \in RunSlots : ContributeReturnOf(i)

\* confirm_payment returns or throws; on Ok setSuccess(true), the 2 s timer
\* is armed, then finally.
ConfirmReturnOf(i) ==
    /\ UNCHANGED <<callVars, fnVars>>
    /\ ~Settling
    /\ i \in DOMAIN runs
    /\ \E res \in ConfirmOutcomes :
         /\ runs[i].pc = "confirming"
         /\ LET q == [runs[i] EXCEPT !.confirmRes = res.tag]
            IN  IF ConfirmFailed(res)
                THEN RunFails(i, q, res)
                ELSE /\ runs' = [runs EXCEPT ![i] =
                                    [q EXCEPT !.pc = "succeeded", !.timer = TRUE,
                                              !.closeRequested = FALSE]]
                     /\ dlg' = IF runs[i].attached
                               THEN [dlg EXCEPT !.success = TRUE, !.isLoading = FALSE]
                               ELSE dlg
                     /\ UNCHANGED usedAfterLogout
    /\ UNCHANGED <<icVars, appVars, procVars>>

\* confirm_payment comes back to one of the runs.
ConfirmReturn == \E i \in RunSlots : ConfirmReturnOf(i)

\* The success timer fires: reset(), then onContributionSuccess, which is
\* App's handleContributionSuccess of the render the run was started in:
\* loadCampaigns on that render's backendActor, and the dialog is closed.
TimerFires ==
    /\ UNCHANGED <<callVars, fnVars>>
    /\ ~Settling
    /\ \E i \in DOMAIN runs :
         /\ runs[i].timer
         /\ loads' = loads \cup {runs[i].be}
         /\ Dispatch(runs[i].be)
         /\ runs' = Detach([runs EXCEPT ![i].timer = FALSE])
    /\ dialogOpen' = FALSE
    /\ dlg' = FreshDlg
    /\ UNCHANGED <<icVars, loading, authenticated, backendActor, fundFlowActor,
                   isConnecting, campaigns, initPc, loginPc, actorsIdentity>>

\* The run of the mounted instance that is in flight was asked to close
\* (remembered while the run is in flight in that instance).
Requested(r) ==
    IF r.attached /\ InFlight(r) THEN [r EXCEPT !.closeRequested = TRUE] ELSE r

\* A handleClose that gives up the run in flight.
CloseCancelsRun(rs) ==
    LET Kept(r) == ~(r.attached /\ InFlight(r)) IN SelectSeq(rs, Kept)

\* handleClose while isLoading: the body of the if is skipped, the run goes on.
CloseWhileLoading(rs) == [i \in DOMAIN rs |-> Requested(rs[i])]

\* handleClose (overlay, Escape, the close and Cancel buttons).
HandleClose ==
    /\ UNCHANGED <<callVars, fnVars>>
    /\ Mounted
    /\ ~Settling
    /\ IF dlg.isLoading
       THEN /\ runs' = CloseWhileLoading(runs)
            /\ UNCHANGED <<dialogOpen, dlg>>
       ELSE /\ dialogOpen' = FALSE
            /\ dlg' = FreshDlg
            /\ runs' = Detach(runs)
    /\ UNCHANGED <<icVars, loading, authenticated, backendActor, fundFlowActor,
                   isConnecting, campaigns, procVars, usedAfterLogout>>

Next ==
    \/ InitStatus
    \/ InitActors
    \/ HandleLogin
    \/ LoginReturn
    \/ LoginActors
    \/ HandleLogout
    \/ LoadReturn
    \/ HandleContribute
    \/ SetAmount
    \/ Submit
    \/ RegisterReturn
    \/ ContributeReturn
    \/ ConfirmReturn
    \/ TimerFires
    \/ HandleClose

Spec == Init /\ [][Next]_vars

\* Every remote call is answered, and a continuation that waits for nothing
\* external runs: each run's pending call comes back, and initializeActors
\* of a production build settles.
Fairness ==
    /\ \A i \in RunSlots :
          /\ SF_vars(RegisterReturnOf(i))
          /\ SF_vars(ContributeReturnOf(i))
          /\ SF_vars(ConfirmReturnOf(i))
    /\ WF_vars(Settling /\ (InitActors \/ LoginActors))
SpecLive == Spec /\ Fairness

\* The same program with one more run allowed alive at a time.
InitConcurrent == Start /\ runLimit = MaxRuns + 1 /\ callLimit = 0 /\ FnIdle
SpecConcurrent == InitConcurrent /\ [][Next]_vars

\* ---------------------------------------------------------------- lib/ic.ts
\* The exported functions called directly, each split at its awaits.
InProgress == {c \in Callers : calls[c].pc # "idle"}

\* An onError path that also drops the stored delegation.
LoginStoresOrClears(ok, s) == ok

\* login: onSuccess stores the delegation, onError rejects and stores nothing.
LoginStores(ok, s) == IF ok THEN TRUE ELSE s

\* logout: authClient = null (and the delegation is gone) only after
\* client.logout() resolved; a rejection is rethrown before the assignment.
LogoutClears(ok, v) == IF ok THEN FALSE ELSE v

\* isAuthenticated without its catch: a failing query is propagated.
IsAuthenticatedResultUncaught(ok, s) ==
    IF ~ok THEN "threw" ELSE IF s THEN "true" ELSE "false"

\* isAuthenticated: the value of client.isAuthenticated(), false from the catch.
IsAuthenticatedResult(ok, s) == IF ok /\ s THEN "true" ELSE "false"

\* A getAuthClient whose new client starts without the stored delegation.
SessionLostOnCreate(s) == FALSE

\* getAuthClient: AuthClient.create() builds the client on what is stored, so
\* the delegation is what it was.
SessionAfterCreate(s) == s

\* A rejected AuthClient.create(): what the calling function comes back with.
CreateFailureResult(op) == IF op = "isAuthenticated" THEN "false" ELSE "threw"

\* The call once getAuthClient has returned the client: suspended at the
\* function's next await, or finished.
WithClient(call) ==
    CASE call.op = "login" -> [call EXCEPT !.pc = "provider"]
      [] call.op = "logout" -> [call EXCEPT !.pc = "loggingOut"]
      [] call.op = "isAuthenticated" -> [call EXCEPT !.pc = "querying"]
      [] call.op = "getPrincipal" -> [call EXCEPT !.pc = "done", !.result = "principal"]
      [] call.op = "createAgent" ->
            IF isLocal THEN [call EXCEPT !.pc = "rootKey"]
            ELSE [call EXCEPT !.pc = "done", !.result = "agent"]

\* A function is called and enters getAuthClient: if (!authClient) it awaits
\* AuthClient.create(), otherwise it has the stored client.
Invoke(c) ==
    /\ UNCHANGED fnVars
    /\ calls[c].pc = "idle"
    /\ Cardinality(InProgress) < callLimit
    /\ \E op \in Ops :
         LET call == [op |-> op, pc |-> "creating", result |-> "none",
                      before |-> StoredState]
         IN  calls' = [calls EXCEPT ![c] = IF authClient THEN WithClient(call) ELSE call]
    /\ UNCHANGED <<icVars, appVars, procVars, dlgVars, callLimit, clientReplaced,
                   usedAfterLogout>>

\* getAuthClient: AuthClient.create() resolves and the client is assigned to
\* the module-level variable, or it rejects.
ClientCreated(c) ==
    /\ UNCHANGED fnVars
    /\ calls[c].pc = "creating"
    /\ \E ok \in BOOLEAN :
         IF ok
         THEN /\ authClient' = TRUE
              /\ sessionValid' = SessionAfterCreate(sessionValid)
              /\ clientReplaced' = (clientReplaced \/ authClient)
              /\ calls' = [calls EXCEPT ![c] = WithClient(@)]
         ELSE /\ UNCHANGED <<authClient, sessionValid, clientReplaced>>
              /\ calls' = [calls EXCEPT ![c] =
                              [@ EXCEPT !.pc = "done",
                                        !.result = CreateFailureResult(calls[c].op)]]
    /\ UNCHANGED <<isLocal, runLimit, appVars, procVars, dlgVars,
                   callLimit, usedAfterLogout>>

\* login: the identity provider calls onSuccess or onError.
LoginSettles(c) ==
    /\ UNCHANGED fnVars
    /\ calls[c].pc = "provider"
    /\ \E ok \in BOOLEAN :
         /\ sessionValid' = LoginStores(ok, sessionValid)
         /\ calls' = [calls EXCEPT ![c] =
                         [@ EXCEPT !.pc = "done",
                                   !.result = IF ok THEN "true" ELSE "threw"]]
    /\ UNCHANGED <<isLocal, authClient, runLimit, appVars, procVars, dlgVars,
                   callLimit, clientReplaced, usedAfterLogout>>

\* logout: client.logout() resolves or rejects.
LogoutSettles(c) ==
    /\ UNCHANGED fnVars
    /\ calls[c].pc = "loggingOut"
    /\ \E ok \in BOOLEAN :
         /\ authClient' = LogoutClears(ok, authClient)
         /\ sessionValid' = LogoutClears(ok, sessionValid)
         /\ calls' = [calls EXCEPT ![c] =
                         [@ EXCEPT !.pc = "done",
                                   !.result = IF ok THEN "ok" ELSE "threw"]]
    /\ UNCHANGED <<isLocal, runLimit, appVars, procVars, dlgVars, callLimit,
                   clientReplaced, usedAfterLogout>>

\* isAuthenticated: client.isAuthenticated() resolves or rejects.
StatusSettles(c) ==
    /\ UNCHANGED fnVars
    /\ calls[c].pc = "querying"
    /\ \E ok \in BOOLEAN :
         calls' = [calls EXCEPT ![c] =
                      [@ EXCEPT !.pc = "done",
                                !.result = IsAuthenticatedResult(ok, sessionValid)]]
    /\ UNCHANGED <<icVars, appVars, procVars, dlgVars, callLimit, clientReplaced,
                   usedAfterLogout>>

\* createAgent: agent.fetchRootKey() resolves, or rejects and is only logged.
RootKeySettles(c) ==
    /\ UNCHANGED fnVars
    /\ calls[c].pc = "rootKey"
    /\ calls' = [calls EXCEPT ![c] = [@ EXCEPT !.pc = "done", !.result = "agent"]]
    /\ UNCHANGED <<icVars, appVars, procVars, dlgVars, callLimit, clientReplaced,
                   usedAfterLogout>>

\* The caller takes the result.
Return(c) ==
    /\ UNCHANGED fnVars
    /\ calls[c].pc = "done"
    /\ calls' = [calls EXCEPT ![c] = IdleCall]
    /\ UNCHANGED <<icVars, appVars, procVars, dlgVars, callLimit, clientReplaced,
                   usedAfterLogout>>

SessionNext ==
    \E c \in Callers :
        \/ Invoke(c)
        \/ ClientCreated(c)
        \/ LoginSettles(c)
        \/ LogoutSettles(c)
        \/ StatusSettles(c)
        \/ RootKeySettles(c)
        \/ Return(c)

\* lib/ic.ts called directly, one call at a time.
InitSession == Start /\ runLimit = MaxRuns /\ callLimit = MaxCalls /\ FnIdle
SpecSession == InitSession /\ [][SessionNext]_vars

\* The same with one more call allowed in progress.
InitSessionConcurrent == Start /\ runLimit = MaxRuns /\ callLimit = MaxCalls + 1 /\ FnIdle
SpecSessionConcurrent == InitSessionConcurrent /\ [][SessionNext]_vars

\* ------------------------------------------- lib/ic.ts: the error classifier
\* A message is the sequence of its words; a word is matched as a whole and
\* exactly, so "Insufficient" is not "insufficient".
Words ==
    {"insufficient", "funds", "not", "authorized", "unauthorized",
     "campaign", "found", "already", "ended", "Insufficient"}
Messages == UNION {[1 .. n -> Words] : n \in 0 .. MaxWords}

\* String.prototype.includes
Includes(msg, pat) ==
    \E k \in 0 .. (Len(msg) - Len(pat)) : SubSeq(msg, k + 1, k + Len(pat)) = pat

\* new ICError(message, code)
ICError(message, code) ==
    [isICError |-> TRUE, isNull |-> FALSE, message |-> message, code |-> code]

\* What is thrown at the classifier: an Error with a message, or null.
RawError(message) ==
    [isICError |-> FALSE, isNull |-> FALSE, message |-> message, code |-> "undefined"]
NullFailure ==
    [isICError |-> FALSE, isNull |-> TRUE, message |-> <<>>, code |-> "undefined"]
RawFailures == {RawError(m) : m \in Messages} \cup {NullFailure}

\* error?.message || error?.toString() || 'Unknown error'
ErrorMessage(error) ==
    IF error.message # <<>> THEN error.message
    ELSE IF ~error.isNull THEN <<"Error">>
    ELSE <<"Unknown", "error">>

\* The tests in the opposite order, so that the last pattern wins.
KindOfLastMatchWins(errorMessage) ==
    IF Includes(errorMessage, <<"campaign", "already", "ended">>)
    THEN "CAMPAIGN_ENDED"
    ELSE IF Includes(errorMessage, <<"campaign", "not", "found">>)
    THEN "CAMPAIGN_NOT_FOUND"
    ELSE IF \/ Includes(errorMessage, <<"not", "authorized">>)
            \/ Includes(errorMessage, <<"unauthorized">>)
    THEN "NOT_AUTHORIZED"
    ELSE IF Includes(errorMessage, <<"insufficient", "funds">>)
    THEN "INSUFFICIENT_FUNDS"
    ELSE "UNKNOWN"

\* The chain of if (errorMessage.includes(...)) return ...: the code chosen
KindOf(errorMessage) ==
    IF Includes(errorMessage, <<"insufficient", "funds">>)
    THEN "INSUFFICIENT_FUNDS"
    ELSE IF \/ Includes(errorMessage, <<"not", "authorized">>)
            \/ Includes(errorMessage, <<"unauthorized">>)
    THEN "NOT_AUTHORIZED"
    ELSE IF Includes(errorMessage, <<"campaign", "not", "found">>)
    THEN "CAMPAIGN_NOT_FOUND"
    ELSE IF Includes(errorMessage, <<"campaign", "already", "ended">>)
    THEN "CAMPAIGN_ENDED"
    ELSE "UNKNOWN"

\* The message each return statement gives the new ICError
MessageOf(code, errorMessage) ==
    CASE code = "INSUFFICIENT_FUNDS" ->
            <<"Insufficient", "funds", "for", "this", "operation">>
      [] code = "NOT_AUTHORIZED" ->
            <<"You", "are", "not", "authorized", "to", "perform", "this", "action">>
      [] code = "CAMPAIGN_NOT_FOUND" -> <<"Campaign", "not", "found">>
      [] code = "CAMPAIGN_ENDED" -> <<"Campaign", "has", "already", "ended">>
      [] OTHER -> errorMessage

\* handleICError from its second statement on
Classify(error) ==
    LET errorMessage == ErrorMessage(error)
        code == KindOf(errorMessage)
    IN  ICError(MessageOf(code, errorMessage), code)

\* handleICError without the instanceof test: every argument is classified.
HandleICErrorAlwaysClassifies(error) == Classify(error)

\* lib/ic.ts handleICError
IcHandleICError(error) == IF error.isICError THEN error ELSE Classify(error)

\* A raw failure is caught and classified.
HandleError ==
    /\ classification.pc = "raw"
    /\ classification' = [classification EXCEPT
                              !.pc = "classified",
                              !.first = IcHandleICError(classification.raw)]
    /\ UNCHANGED <<icVars, appVars, procVars, dlgVars, callVars, card, conversion,
                   usedAfterLogout>>

\* The classified error is caught further up and handed to the classifier again.
HandleErrorAgain ==
    /\ classification.pc = "classified"
    /\ classification' = [classification EXCEPT
                              !.pc = "reclassified",
                              !.second = IcHandleICError(classification.first)]
    /\ UNCHANGED <<icVars, appVars, procVars, dlgVars, callVars, card, conversion,
                   usedAfterLogout>>

ClassifierNext == HandleError \/ HandleErrorAgain

\* The classifier applied to each raw failure.
InitClassifier ==
    /\ Start
    /\ ~isLocal
    /\ ~sessionValid
    /\ runLimit = MaxRuns
    /\ callLimit = 0
    /\ classification \in
          {[pc |-> "raw", raw |-> e, first |-> NullFailure, second |-> NullFailure] :
               e \in RawFailures}
    /\ card = NoInput
    /\ conversion = NoInput

SpecClassifier == InitClassifier /\ [][ClassifierNext]_vars

\* ------------------------------------- lib/utils.ts and the campaign card
\* Math.ceil(n / d) for d > 0
Ceil(n, d) == -((-n) \div d)
\* Math.floor(n / d) for d > 0
Floor(n, d) == n \div d

\* Percentages are kept as fractions num / den, den > 0.  Number(bigint) is
\* exact for the values used here.
Percent(n, d) == [num |-> n, den |-> d]

\* calculateProgress without Math.min.
CalculateProgressUnclamped(current, goal) ==
    IF goal = 0 THEN Percent(0, 1) ELSE Percent(current * 100, goal)

\* calculateProgress
CalculateProgress(current, goal) ==
    IF goal = 0 THEN Percent(0, 1)
    ELSE IF current * 100 > 100 * goal THEN Percent(100, 1)
    ELSE Percent(current * 100, goal)

\* getDaysLeft rounding down.
GetDaysLeftFloor(endDate, nowMs) ==
    Floor(endDate * MS_PER_SECOND - nowMs, SECONDS_PER_DAY * MS_PER_SECOND)

\* getDaysLeft, with Date.now() = nowMs: now = nowMs / 1000,
\* Math.ceil((end - now) / 86400)
GetDaysLeft(endDate, nowMs) ==
    Ceil(endDate * MS_PER_SECOND - nowMs, SECONDS_PER_DAY * MS_PER_SECOND)

\* const isActive = daysLeft > 0
IsActive(daysLeft) == daysLeft > 0

\* const isFunded = campaign.amount_raised >= campaign.goal
IsFunded(amount_raised, goal) == amount_raised >= goal

\* A badge that looks at isFunded first.
GetStatusBadgeFundedFirst(isActive, isFunded) ==
    IF isFunded THEN "Funded" ELSE IF ~isActive THEN "Ended" ELSE "Active"

\* getStatusBadge
GetStatusBadge(isActive, isFunded) ==
    IF ~isActive THEN "Ended" ELSE IF isFunded THEN "Funded" ELSE "Active"

\* Campaign values and instants (Date.now(), in ms) a card is rendered with.
Units == 0 .. MaxUnits
Instants ==
    {d * SECONDS_PER_DAY * MS_PER_SECOND + o : d \in 0 .. MaxDays, o \in {0, 500, 1000}}
EndDates == {d * SECONDS_PER_DAY + o : d \in 0 .. MaxDays, o \in {0, 1}}

CardInput(goal, amount_raised, end_date, nowMs) ==
    [pc |-> "input", goal |-> goal, amount_raised |-> amount_raised,
     end_date |-> end_date, now |-> nowMs,
     progress |-> Percent(0, 1), daysLeft |-> 0, isActive |-> FALSE,
     isFunded |-> FALSE, badge |-> "none", disabled |-> TRUE]

\* CampaignCard renders: the derived values, the badge, the button.
RenderCard ==
    /\ card.pc = "input"
    /\ LET daysLeft == GetDaysLeft(card.end_date, card.now)
           isActive == IsActive(daysLeft)
           isFunded == IsFunded(card.amount_raised, card.goal)
       IN  card' = [card EXCEPT
                       !.pc = "rendered",
                       !.progress = CalculateProgress(card.amount_raised, card.goal),
                       !.daysLeft = daysLeft,
                       !.isActive = isActive,
                       !.isFunded = isFunded,
                       !.badge = GetStatusBadge(isActive, isFunded),
                       !.disabled = ~isActive]
    /\ UNCHANGED <<icVars, appVars, procVars, dlgVars, callVars, classification,
                   conversion, usedAfterLogout>>

\* The card's contribute button is clicked: onContribute(campaign.id).
ClickContribute ==
    /\ card.pc = "rendered"
    /\ ~card.disabled
    /\ card' = [card EXCEPT !.pc = "clicked"]
    /\ UNCHANGED <<icVars, appVars, procVars, dlgVars, callVars, classification,
                   conversion, usedAfterLogout>>

CardNext == RenderCard \/ ClickContribute

\* One card, for each campaign and instant.
InitCard ==
    /\ Start
    /\ ~isLocal
    /\ ~sessionValid
    /\ runLimit = MaxRuns
    /\ callLimit = 0
    /\ classification = NoInput
    /\ card \in {CardInput(g, a, e, n) :
                     g \in Units, a \in Units, e \in EndDates, n \in Instants}
    /\ conversion = NoInput

SpecCard == InitCard /\ [][CardNext]_vars

\* ------------------------------------------------- amounts to e8s and back
\* Amounts of 10^8 ICP and a few e8s.
LargeWhole == E8S_PER_ICP
LargeAmounts ==
    {Amount(FALSE, FALSE, LargeWhole, f * (FRAC_SCALE \div E8S_PER_ICP)) :
         f \in 0 .. MaxFrac}

\* The dialog renders with some text in the amount field: amountE8s.
ConvertAmount ==
    /\ conversion.pc = "input"
    /\ conversion' = [conversion EXCEPT !.pc = "converted",
                                        !.e8s = AmountE8s(conversion.amount)]
    /\ UNCHANGED <<icVars, appVars, procVars, dlgVars, callVars, classification,
                   card, usedAfterLogout>>

\* The e8s are shown as ICP again: formatE8s.
FormatAmount ==
    /\ conversion.pc = "converted"
    /\ conversion' = [conversion EXCEPT !.pc = "formatted",
                                        !.back = FormatE8s(conversion.e8s)]
    /\ UNCHANGED <<icVars, appVars, procVars, dlgVars, callVars, classification,
                   card, usedAfterLogout>>

ConversionNext == ConvertAmount \/ FormatAmount

\* One amount text, small or large.
InitConversion ==
    /\ Start
    /\ ~isLocal
    /\ ~sessionValid
    /\ runLimit = MaxRuns
    /\ callLimit = 0
    /\ classification = NoInput
    /\ card = NoInput
    /\ conversion \in
          {[pc |-> "input", amount |-> a, e8s |-> AmountE8s(EmptyAmount),
            back |-> EmptyAmount] : a \in AmountInputs \cup LargeAmounts}

SpecConversion == InitConversion /\ [][ConversionNext]_vars

\* ------------------------------------------------------------ properties
\* C1: a run reports success only after contribute_icp and then
\* confirm_payment both came back Ok, and the dialog shows the success panel
\* only for such a run that it started itself.
C1_SuccessOnlyAfterBothOk ==
    /\ \A i \in DOMAIN runs :
         runs[i].pc = "succeeded" =>
             runs[i].contributeRes = "Ok" /\ runs[i].confirmRes = "Ok"
    /\ dlg.success =>
         \E i \in DOMAIN runs :
             /\ runs[i].attached
             /\ runs[i].pc = "succeeded"
             /\ runs[i].contributeRes = "Ok"
             /\ runs[i].confirmRes = "Ok"

C1_Witness ==
    \E i \in DOMAIN runs :
        runs[i].pc = "succeeded" /\ runs[i].attached /\ dlg.success

\* C2: confirm_payment is dispatched only after contribute_icp returned Ok
\* with a contribution id, and it is given exactly that id; before that
\* point of a run no confirmation was dispatched.
C2_ContributePrecedesConfirm ==
    \A i \in DOMAIN runs :
        /\ (runs[i].pc = "confirming" \/ runs[i].confirmRes # "none"
                \/ runs[i].confirmArg # 0) =>
              /\ runs[i].contributeRes = "Ok"
              /\ runs[i].cid \in ContributionIds
              /\ runs[i].confirmArg = runs[i].cid
        /\ runs[i].pc \in {"registering", "contributing"} =>
              runs[i].confirmRes = "none" /\ runs[i].confirmArg = 0

C2_Witness ==
    \E i \in DOMAIN runs :
        runs[i].pc = "confirming" /\ runs[i].confirmArg \in ContributionIds

\* C3: when contribute_icp returns an Err payload or throws, the run ends
\* Failed, confirm_payment is not called, and the dialog that started the
\* run shows an error and is no longer busy.
C3_ContributeFailureEndsRun ==
    \A i \in DOMAIN runs :
        runs[i].contributeRes \in {"Err", "Throw"} =>
            /\ runs[i].pc = "failed"
            /\ runs[i].confirmRes = "none"
            /\ runs[i].confirmArg = 0
            /\ runs[i].attached =>
                  dlg.error # NoMessage /\ ~dlg.isLoading /\ ~dlg.success

C3_Witness ==
    \E i \in DOMAIN runs :
        /\ runs[i].contributeRes = "Err"
        /\ runs[i].pc = "failed"
        /\ runs[i].attached
        /\ dlg.error = "campaign already ended"

\* C4: at most one contribution run is in flight at any time.
C4_AtMostOneRunInFlight ==
    Cardinality({i \in DOMAIN runs : InFlight(runs[i])}) <= 1

\* C5: a registration failure other than "already registered" aborts the
\* run: it ends Failed and neither contribute_icp nor confirm_payment is
\* called.
C5_RegistrationFailureAborts ==
    \A i \in DOMAIN runs :
        (runs[i].registerRes = "Throw" /\ runs[i].registerMsg # AlreadyRegistered) =>
            /\ runs[i].pc = "failed"
            /\ runs[i].contributeRes = "none"
            /\ runs[i].confirmRes = "none"

\* C6: when register_user fails because the user is already registered, the
\* run goes on to contribute_icp; the failure does not end the run and no
\* error is shown for it.
C6_AlreadyRegisteredProceeds ==
    \A i \in DOMAIN runs :
        (runs[i].registerRes = "Throw" /\ runs[i].registerMsg = AlreadyRegistered) =>
            /\ runs[i].pc # "registering"
            /\ runs[i].pc = "failed" => runs[i].contributeRes # "none"
            /\ (runs[i].pc = "contributing" /\ runs[i].attached) =>
                  dlg.error = NoMessage /\ dlg.isLoading

C6_Witness ==
    \E i \in DOMAIN runs :
        /\ runs[i].registerMsg = AlreadyRegistered
        /\ runs[i].pc = "contributing"
        /\ runs[i].attached

\* C7: the amount sent is floor(amount * 10^8), and a request whose converted
\* amount is not positive (or exceeds the limit) is rejected before
\* registration, so no run exists for it.
C7_ConvertedAmountChecked ==
    \A i \in DOMAIN runs :
        /\ runs[i].e8s = AmountE8s(runs[i].amount)
        /\ E8sPositive(runs[i].e8s)
        /\ runs[i].e8s.whole <= MAX_ICP

\* C8: a request with amount 0 or a negative amount is rejected by the
\* validation: no run is started for it (so no remote call is made) and the
\* form shows the validation error.
C8_NonPositiveAmountRejected ==
    /\ \A i \in DOMAIN runs : AmountPositive(runs[i].amount)
    /\ (dlg.isSubmitted /\ ~dlg.amount.empty /\ ~AmountPositive(dlg.amount)) =>
          dlg.formError /\ ~dlg.isLoading

C8_Witness ==
    /\ Mounted
    /\ dlg.isSubmitted
    /\ dlg.amount = AmtZero
    /\ dlg.formError
    /\ runs = <<>>

\* C9: no remote call is dispatched on a client handle whose session was
\* invalidated by logout.
C9_NoCallOnInvalidatedHandle == ~usedAfterLogout

\* C10: while the user is logged in, the handles App holds were built on the
\* current session; handles of a session ended by logout are not held again.
C10_HeldHandlesAreCurrent ==
    authenticated => backendActor # "stale" /\ fundFlowActor # "stale"

\* C11, as stated: login() returns true with the credential stored when the
\* provider reports success; when it fails, login() fails with the error and
\* the stored session state (client and credential) is what it was before
\* the call.
C11_FailedLoginLeavesStoredState ==
    \A c \in Callers :
        (calls[c].op = "login" /\ calls[c].pc = "done") =>
            \/ calls[c].result = "true" /\ sessionValid /\ authClient
            \/ calls[c].result = "threw" /\ StoredState = calls[c].before

\* C11, amended: login() returns true exactly when the provider reported
\* success, and the credential is stored then; a login that fails comes back
\* with the error and the failing step changes neither the stored credential
\* nor the stored client (only getAuthClient, earlier in the call, may have
\* created the client when none was stored).
C11_LoginOutcome ==
    [][\A c \in Callers :
          (calls[c].op = "login" /\ calls[c].pc # "done" /\ calls'[c].pc = "done") =>
              IF calls'[c].result = "true"
              THEN calls[c].pc = "provider" /\ sessionValid'
              ELSE /\ calls'[c].result = "threw"
                   /\ sessionValid' = sessionValid
                   /\ authClient' = authClient]_vars

C11_Witness ==
    \E c \in Callers :
        /\ calls[c].op = "login"
        /\ calls[c].pc = "done"
        /\ calls[c].result = "threw"
        /\ ~calls[c].before.client
        /\ calls[c].before.session
        /\ authClient
        /\ sessionValid

\* C12: after any call of logout(), whether or not the user was
\* authenticated and whether or not the provider-side logout failed, no
\* client and no credential is stored.
C12_LogoutAlwaysClears ==
    \A c \in Callers :
        (calls[c].op = "logout" /\ calls[c].pc = "done") =>
            ~authClient /\ ~sessionValid

\* C13: isAuthenticated() never propagates an exception: whether the client
\* could not be obtained or the query on it failed, the call comes back with
\* a boolean (false on failure).
C13_IsAuthenticatedNeverThrows ==
    \A c \in Callers :
        (calls[c].op = "isAuthenticated" /\ calls[c].pc = "done") =>
            calls[c].result \in {"true", "false"}

\* The query failed on a client that holds a valid session: false comes back.
C13_Witness ==
    \E c \in Callers :
        /\ calls[c].op = "isAuthenticated"
        /\ calls[c].pc = "done"
        /\ calls[c].result = "false"
        /\ authClient
        /\ sessionValid
        /\ Cardinality(InProgress) = 1

\* C14: only one auth client exists at a time: between two logouts
\* getAuthClient creates at most one client, whatever the interleaving of the
\* calls that go through it, so no client is ever stored over another one.
C14_OneClientAtATime == ~clientReplaced

\* C15, as stated: creating a client handle and querying the principal leave
\* the stored session state (client and credential) as it was before the
\* call, also after a logout.
C15_ReadersLeaveStoredState ==
    \A c \in Callers :
        (calls[c].op \in {"getPrincipal", "createAgent"} /\ calls[c].pc = "done") =>
            StoredState = calls[c].before

\* C15, amended: the stored credential changes only in a step of login or
\* logout, and a stored client is dropped only by logout; the other
\* functions at most create the client when none is stored.
C15_OnlyLoginLogoutChangeCredential ==
    [][/\ sessionValid' # sessionValid =>
            \E c \in Callers :
                calls[c].op \in {"login", "logout"} /\ calls'[c] # calls[c]
       /\ (authClient /\ ~authClient') =>
            \E c \in Callers :
                calls[c].op = "logout" /\ calls'[c] # calls[c]]_vars

\* createAgent was called with a delegation but no client stored, and
\* returned: a client is stored now, the delegation is as it was.
C15_Witness ==
    \E c \in Callers :
        /\ calls[c].op = "createAgent"
        /\ calls[c].pc = "done"
        /\ calls[c].result = "agent"
        /\ ~calls[c].before.client
        /\ calls[c].before.session
        /\ authClient
        /\ sessionValid

\* C16: the application obtains a client handle from the actor factories
\* only while the session is valid: whenever App receives new actors, the
\* user is authenticated and a valid session is stored.
C16_HandlesObtainedWhileAuthenticated ==
    [][(backendActor' # backendActor /\ backendActor' # NullActor) =>
           sessionValid' /\ authenticated']_vars

\* C17: every failure the workflow surfaces reaches the UI with a kind among
\* InsufficientFunds, NotAuthorized, CampaignNotFound, CampaignEnded and
\* Unknown; a contribute Err payload "campaign already ended" is surfaced as
\* CampaignEnded.
C17_FailuresAreClassified ==
    \A i \in DOMAIN runs :
        (runs[i].pc = "failed" /\ runs[i].attached) =>
            /\ dlg.error # NoMessage
            /\ HandleICError(dlg.error).code \in ErrorKinds
            /\ dlg.error = "campaign already ended" =>
                  HandleICError(dlg.error).code = "CAMPAIGN_ENDED"

\* C18: when contribute_icp and confirm_payment both succeed, the run
\* reaches Succeeded and its result carries the contribution id that
\* contribute_icp returned.
C18_SuccessCarriesContributionId ==
    \A i \in DOMAIN runs :
        (runs[i].contributeRes = "Ok" /\ runs[i].confirmRes = "Ok") =>
            /\ runs[i].pc = "succeeded"
            /\ runs[i].cid \in ContributionIds
            /\ RunResult(runs[i]).success
            /\ "contributionId" \in DOMAIN RunResult(runs[i])
            /\ RunResult(runs[i]).contributionId = runs[i].cid

\* C19: when confirm_payment throws or returns Err after contribute_icp
\* succeeded, the run ends Failed with the error shown, and it has sent each
\* call once and sends nothing more: no second confirm, no second
\* contribute, no rollback, no refresh timer.
C19_ConfirmFailureEndsRun ==
    \A i \in DOMAIN runs :
        runs[i].confirmRes \in {"Err", "Throw"} =>
            /\ runs[i].pc = "failed"
            /\ ~runs[i].timer
            /\ runs[i].contributeRes = "Ok"
            /\ runs[i].sent = [registering |-> 1, contributing |-> 1, confirming |-> 1]
            /\ runs[i].attached =>
                  dlg.error # NoMessage /\ ~dlg.isLoading /\ ~dlg.success

C19_Witness ==
    \E i \in DOMAIN runs :
        /\ runs[i].confirmRes = "Err"
        /\ runs[i].pc = "failed"
        /\ runs[i].attached
        /\ dlg.error = "contribution not found"

\* C20: within one run each of register_user, contribute_icp and
\* confirm_payment is invoked at most once, whatever the calls come back with.
C20_EachCallAtMostOnce ==
    \A i \in DOMAIN runs :
        \A k \in DOMAIN runs[i].sent : runs[i].sent[k] <= 1

\* A run that made all three calls and ended on a thrown confirmation.
C20_Witness ==
    \E i \in DOMAIN runs :
        /\ runs[i].registerRes = "Throw"
        /\ runs[i].confirmRes = "Throw"
        /\ runs[i].pc = "failed"
        /\ \A k \in DOMAIN runs[i].sent : runs[i].sent[k] = 1

\* C21: the classifier gives every raw failure exactly one kind, decided by
\* its message alone: InsufficientFunds if it contains 'insufficient funds';
\* otherwise NotAuthorized if it contains 'not authorized' or 'unauthorized';
\* otherwise CampaignNotFound if it contains 'campaign not found'; otherwise
\* CampaignEnded if it contains 'campaign already ended'; otherwise Unknown.
\* The match is case-sensitive and the earliest pattern in this order wins.
C21_FirstMatchingPatternDecides ==
    classification.pc \in {"classified", "reclassified"} =>
        LET m == ErrorMessage(classification.raw)
            kind == classification.first.code
            funds == Includes(m, <<"insufficient", "funds">>)
            auth == Includes(m, <<"not", "authorized">>) \/ Includes(m, <<"unauthorized">>)
            found == Includes(m, <<"campaign", "not", "found">>)
            ended == Includes(m, <<"campaign", "already", "ended">>)
        IN  /\ classification.first.isICError
            /\ kind \in ErrorKinds
            /\ kind = "INSUFFICIENT_FUNDS" <=> funds
            /\ kind = "NOT_AUTHORIZED" <=> (~funds /\ auth)
            /\ kind = "CAMPAIGN_NOT_FOUND" <=> (~funds /\ ~auth /\ found)
            /\ kind = "CAMPAIGN_ENDED" <=> (~funds /\ ~auth /\ ~found /\ ended)
            /\ kind = "UNKNOWN" <=> (~funds /\ ~auth /\ ~found /\ ~ended)

\* 'campaign not found' comes first in the text, 'unauthorized' first in the order.
C21_Witness ==
    /\ classification.pc = "classified"
    /\ classification.raw.message = <<"campaign", "not", "found", "unauthorized">>
    /\ classification.first.code = "NOT_AUTHORIZED"

\* C22: classifying an already classified error gives back the same value,
\* kind and message, whatever the raw failure was.
C22_ClassificationIdempotent ==
    classification.pc = "reclassified" =>
        /\ classification.second = classification.first
        /\ classification.second.code = classification.first.code
        /\ classification.second.message = classification.first.message

\* The canonical message of InsufficientFunds does not itself contain the
\* pattern (capital I); the second call still returns InsufficientFunds.
C22_Witness ==
    /\ classification.pc = "reclassified"
    /\ classification.raw.message = <<"insufficient", "funds">>
    /\ classification.second.code = "INSUFFICIENT_FUNDS"
    /\ ~Includes(classification.second.message, <<"insufficient", "funds">>)

\* C23: a request to close the dialog does not cancel a run: every run in
\* flight is still there after the request, at the same step, with the same
\* handles, amount, results and calls sent, so its pending call comes back to
\* a run that carries on.
C23_CloseLeavesRunsInFlight ==
    [][HandleClose =>
          \A i \in DOMAIN runs :
              InFlight(runs[i]) =>
                  \E j \in DOMAIN runs' :
                      [runs'[j] EXCEPT !.attached = FALSE, !.closeRequested = FALSE]
                          = [runs[i] EXCEPT !.attached = FALSE, !.closeRequested = FALSE]]_vars

\* A run that was asked to close is in flight, at its last call.
C23_Witness ==
    \E i \in DOMAIN runs :
        /\ runs[i].closeRequested
        /\ runs[i].attached
        /\ runs[i].pc = "confirming"
        /\ runs[i].sent = [registering |-> 1, contributing |-> 1, confirming |-> 1]
        /\ dlg.isLoading
        /\ dialogOpen

\* C24: calculateProgress is 0 when the goal is 0, otherwise
\* min(amountRaised / goal * 100, 100); the result lies in [0, 100].
C24_ProgressClamped ==
    card.pc \in {"rendered", "clicked"} =>
        LET p == card.progress
        IN  /\ p.den > 0
            /\ card.goal = 0 => p.num = 0
            /\ (card.goal # 0 /\ card.amount_raised >= card.goal) => p.num = 100 * p.den
            /\ (card.goal # 0 /\ card.amount_raised < card.goal) =>
                  p.num * card.goal = card.amount_raised * 100 * p.den
            /\ 0 <= p.num
            /\ p.num <= 100 * p.den

\* Something was raised for a campaign whose goal is 0.
C24_Witness ==
    /\ card.pc = "rendered"
    /\ card.goal = 0
    /\ card.amount_raised > 0
    /\ card.progress.num = 0

\* C25: isFunded is true exactly when amountRaised >= goal; whenever
\* daysLeft <= 0 the campaign is not active, whether funded or not: it is
\* shown as ended and its contribute button is disabled (so never clicked).
C25_EndedOverridesFunded ==
    card.pc \in {"rendered", "clicked"} =>
        /\ card.isFunded <=> (card.amount_raised >= card.goal)
        /\ card.daysLeft <= 0 =>
              /\ ~card.isActive
              /\ card.badge = "Ended"
              /\ card.disabled
              /\ card.pc # "clicked"

C25_Witness ==
    /\ card.pc = "rendered"
    /\ card.goal > 0
    /\ card.amount_raised >= card.goal
    /\ card.isFunded
    /\ card.daysLeft <= 0
    /\ card.badge = "Ended"
    /\ card.disabled

\* C26: getDaysLeft is ceil((endDate - now) / 86400): an end 1 second ahead
\* gives 1, an end in the past gives a value <= 0, and a card whose value
\* is exactly 0 is not active.
C26_DaysLeftIsCeiling ==
    card.pc \in {"rendered", "clicked"} =>
        LET diffMs == card.end_date * MS_PER_SECOND - card.now
            dayMs == SECONDS_PER_DAY * MS_PER_SECOND
        IN  /\ (card.daysLeft - 1) * dayMs < diffMs
            /\ diffMs <= card.daysLeft * dayMs
            /\ diffMs = MS_PER_SECOND => card.daysLeft = 1
            /\ diffMs < 0 => card.daysLeft <= 0
            /\ card.daysLeft = 0 => ~card.isActive /\ card.disabled

\* The campaign ends one second after the card is rendered.
C26_Witness ==
    /\ card.pc = "rendered"
    /\ card.end_date * MS_PER_SECOND - card.now = MS_PER_SECOND
    /\ card.daysLeft = 1
    /\ card.isActive

\* C27: an amount with at most 8 fractional digits, converted to e8s by
\* floor(a * 10^8) and back by dividing by 10^8, comes back within 1e-8 of a.
C27_RoundTripWithinOneE8 ==
    (conversion.pc = "formatted"
        /\ conversion.amount.frac % (FRAC_SCALE \div E8S_PER_ICP) = 0) =>
            Distance(conversion.back, conversion.amount) <= FRAC_SCALE \div E8S_PER_ICP

C29_SuccessExcludesError ==
    /\ ~(dlg.success /\ dlg.error # NoMessage)
    /\ \A i \in DOMAIN runs :
          /\ runs[i].timer => runs[i].pc = "succeeded" /\ runs[i].confirmRes = "Ok"
          /\ runs[i].pc = "failed" => ~runs[i].timer

\* The success panel is up and the callback is scheduled.
C29_Witness ==
    /\ dlg.success
    /\ dlg.error = NoMessage
    /\ ~dlg.isLoading
    /\ \E i \in DOMAIN runs : runs[i].timer /\ runs[i].attached

\* C30: when the user is authenticated and neither a login nor the
\* initialisation is in progress, App holds both client handles; this
\* includes the state after actor creation failed following a successful login.
C30_AuthenticatedHoldsHandles ==
    (authenticated /\ ~isConnecting /\ ~loading) =>
        backendActor # NullActor /\ fundFlowActor # NullActor

====
